---- MODULE Spec2Model ----
(***************************************************************************)
(* Model of src/lib/util/removeUnusedExport.ts: the orchestration of       *)
(* removeUnusedExport (seeding, TaskManager callback, deferred cleanup of  *)
(* whole re-exports) and the analyzer processFile.                         *)
(*                                                                         *)
(* A module text is kept as its abstract syntax: the export items          *)
(* parseFile reports, the import declarations, the local declarations left *)
(* behind by stripExportKeyword and whether the text holds IGNORE_COMMENT  *)
(* somewhere that is not an export's leading comment.                      *)
(***************************************************************************)
EXTENDS Integers, Sequences, FiniteSets, TLC

\* ------------------------------------------------------------------ bounds

\* Worker concurrency when a pool is given (no pool: 1).
PoolSize == 2
\* Cap on callback invocations per path and run (keeps a diverging run finite).
MaxExec == 4

\* depth of a vertex no entrypoint reaches (vertex.data.depth < Infinity)
Infinity == 99

\* ------------------------------------------------------------- the inputs

Modules == {"a", "b", "c", "d"}
\* fileService.getFileNames() order
FileNames == <<"a", "b", "c", "d">>

\* module specifier text used in import/export declarations for a module
Specifier(m) == "./" \o m
Resolve(s) == CHOOSE m \in Modules : Specifier(m) = s

NoFile ==
  [exists |-> FALSE, items |-> {}, imports |-> {}, locals |-> {}, marker |-> FALSE]

Var(names, skip) == [kind |-> "var", names |-> names, skip |-> skip, from |-> ""]
Func(n, skip) == [kind |-> "func", names |-> {n}, skip |-> skip, from |-> ""]
TypeAlias(n, skip) == [kind |-> "type", names |-> {n}, skip |-> skip, from |-> ""]
Named(names, m, skip) ==
  [kind |-> "named", names |-> names, skip |-> skip, from |-> Specifier(m)]
Whole(m) == [kind |-> "whole", names |-> {}, skip |-> FALSE, from |-> Specifier(m)]
\* import { name } from m, referenced only by the declaration `by`
\* ("" : referenced by the module body); name "*" is import * as ns
Imp(m, name, by) == [from |-> Specifier(m), name |-> name, by |-> by]
Text(items, imports, marker) ==
  [exists |-> TRUE, items |-> items, imports |-> imports, locals |-> {},
   marker |-> marker]

TextsA ==
  { Text({}, {Imp("b", "x", "")}, FALSE),
    Text({}, {Imp("b", "*", "")}, FALSE),
    Text({Var({"x"}, FALSE)}, {Imp("b", "x", ""), Imp("c", "y", "")}, FALSE),
    Text({Whole("b")}, {}, FALSE) }

TextsB ==
  { Text({Func("x", FALSE), Func("y", FALSE)}, {Imp("c", "x", "y")}, FALSE),
    Text({Named({"x"}, "c", FALSE), Var({"y"}, FALSE)}, {}, FALSE),
    Text({Whole("c"), Var({"y"}, TRUE)}, {}, FALSE),
    Text({Var({"x", "y"}, FALSE), Named({"x", "y"}, "c", FALSE)}, {}, FALSE),
    Text({}, {}, FALSE) }

TextsC ==
  { Text({TypeAlias("x", FALSE), Var({"y"}, FALSE)}, {}, FALSE),
    Text({Var({"x"}, FALSE), Func("y", TRUE)}, {Imp("d", "x", "x")}, FALSE),
    Text({Named({"x"}, "d", FALSE)}, {}, FALSE),
    Text({}, {Imp("d", "x", "")}, FALSE) }

TextsD ==
  { Text({Var({"x"}, FALSE)}, {}, FALSE),
    Text({Var({"x"}, TRUE), Whole("c")}, {}, FALSE),
    Text({}, {}, TRUE),
    Text({Func("x", FALSE)}, {Imp("c", "x", "x")}, FALSE),
    Text({Whole("c")}, {}, FALSE) }

Stores ==
  { [m \in Modules |->
       CASE m = "a" -> ta [] m = "b" -> tb [] m = "c" -> tc [] OTHER -> td]
    : ta \in TextsA, tb \in TextsB, tc \in TextsC, td \in TextsD }

EntrypointSets == { {"a"}, {"a", "c"} }

\* ------------------------------------------------------ dependency graph

NoVertex ==
  [present |-> FALSE, to |-> {}, from |-> {}, depth |-> Infinity, whole |-> {}]

\* the modules a text imports or re-exports from
Targets(text) ==
  {Resolve(i.from) : i \in text.imports}
    \cup {Resolve(it.from) : it \in {x \in text.items : x.from # ""}}

Edges(F, f) == {m \in Targets(F[f]) : F[m].exists /\ m # f}

RECURSIVE Within(_, _, _)
Within(F, E, k) ==
  IF k = 0 THEN E
  ELSE LET prev == Within(F, E, k - 1)
       IN prev \cup UNION {Edges(F, f) : f \in prev}

DepthOf(F, E, m) ==
  LET n == Cardinality(Modules)
      ks == {k \in 0..n : m \in Within(F, E, k)}
  IN IF ks = {} THEN Infinity ELSE CHOOSE k \in ks : \A j \in ks : k <= j

\* collectImports: one vertex per module of the store; to/from from the
\* import and re-export declarations, depth by breadth-first search from the
\* entrypoints, wholeReexportSpecifier for `export * from`.
CollectImports(F, E) ==
  [m \in Modules |->
     IF ~F[m].exists THEN NoVertex
     ELSE [present |-> TRUE,
           to |-> Edges(F, m),
           from |-> {f \in Modules : F[f].exists /\ m \in Edges(F, f)},
           depth |-> DepthOf(F, E, m),
           whole |-> {<<Resolve(it.from), it.from>> :
                        it \in {x \in F[m].items :
                                  x.kind = "whole" /\ Resolve(x.from) \in Edges(F, m)}}]]

DeleteVertex(G, p) ==
  [m \in Modules |->
     IF m = p THEN NoVertex
     ELSE [G[m] EXCEPT !.to = @ \ {p}, !.from = @ \ {p}]]

\* target.data.wholeReexportSpecifier.get(file): the set holds at most one
WholeReexportSpecifier(vertex, file) ==
  {pr[2] : pr \in {q \in vertex.whole : q[1] = file}}

\* ---------------------------------------------------------- the analyzer

EmptyText == Text({}, {}, FALSE)
\* files.get(targetFile) || ''
Content(F, t) == IF F[t].exists THEN F[t] ELSE EmptyText

\* findFileUsage: the names the importers of target (vertex.from) take from
\* it, read from the importers' texts in the snapshot; "*" for a namespace
\* import and for a whole re-export by an entrypoint; a whole re-export by
\* another module passes on what is used of that module.
RECURSIVE UsageRec(_, _, _, _)
UsageRec(target, visited, V, F) ==
  IF ~V[target].present THEN {}
  ELSE UNION {
    LET text == Content(F, f)
        imported == {i.name : i \in {j \in text.imports : Resolve(j.from) = target}}
        reexported ==
          UNION {it.names : it \in {x \in text.items :
                    x.kind = "named" /\ x.from # "" /\ Resolve(x.from) = target}}
        whole == {x \in text.items : x.kind = "whole" /\ Resolve(x.from) = target}
        through ==
          IF whole = {} THEN {}
          ELSE IF V[f].depth = 0 THEN {"*"}
          ELSE IF f \in visited THEN {}
          ELSE UsageRec(f, visited \cup {target}, V, F)
    IN imported \cup reexported \cup through
    : f \in V[target].from }

FindFileUsage(target, V, F) == UsageRec(target, {target}, V, F)

\* parseFile(...).exports
ParseExports(text) == text.items

\* the per-export switch: does the item get a text change
IsRemovedNoSkip(item, usage) ==
  CASE item.kind \in {"var", "func", "iface", "type", "class", "named"} ->
         ~(item.names \subseteq usage)
    [] item.kind = "default" -> ~("default" \in usage)
    [] OTHER -> FALSE
IsRemoved(item, usage) ==
  CASE item.kind = "var" -> ~(item.skip \/ item.names \subseteq usage)
    [] item.kind \in {"func", "iface", "type", "class"} ->
         ~(item.skip \/ item.names \subseteq usage)
    [] item.kind = "default" -> ~(item.skip \/ "default" \in usage)
    [] item.kind = "named" -> ~(item.skip \/ item.names \subseteq usage)
    [] OTHER -> FALSE

\* logs pushed for a changed item (position: the item the change starts at)
LogsOf(target, item, usage) ==
  IF item.kind = "named"
  THEN {[fileName |-> target, position |-> item.kind, code |-> {n}] :
          n \in item.names \ usage}
  ELSE IF item.kind = "default"
  THEN {[fileName |-> target, position |-> item.kind, code |-> {"default"}]}
  ELSE {[fileName |-> target, position |-> item.kind, code |-> item.names]}

\* what a changed item leaves in the export list
Residue(item, usage) ==
  IF item.kind = "named" /\ item.names \cap usage # {}
  THEN {[item EXCEPT !.names = item.names \cap usage]}
  ELSE {}

\* stripExportKeyword: a named function stays as a local declaration
Stripped(item) ==
  IF item.kind = "func" /\ "default" \notin item.names THEN item.names ELSE {}

ApplyTextChanges(text, changes, usage) ==
  [text EXCEPT
     !.items = (text.items \ changes) \cup UNION {Residue(it, usage) : it \in changes},
     !.locals = text.locals \cup UNION {Stripped(it) : it \in changes}]

\* applyCodeFix(fixIdDelete) to a fixpoint, then applyCodeFix(fixIdDeleteImports):
\* unused local declarations go, then the imports nothing refers to any more
ApplyCodeFix(text) ==
  LET declared == UNION {it.names : it \in text.items}
  IN [text EXCEPT
        !.locals = {},
        !.imports = {i \in text.imports : i.by = "" \/ i.by \in declared}]

HasWildcardNever(usage) == FALSE
HasWildcard(usage) == "*" \in usage

ProcessFile(target, F, V, deleteUnusedFile, enableCodeFix) ==
  LET usage == FindFileUsage(target, V, F)
      exports == ParseExports(Content(F, target))
      changes == {it \in exports : IsRemoved(it, usage)}
      logs == UNION {LogsOf(target, it, usage) : it \in changes}
      edited == ApplyTextChanges(Content(F, target), changes, usage)
  IN IF HasWildcard(usage)
     THEN [operation |-> "edit", content |-> Content(F, target),
           removedExports |-> {}, usage |-> usage]
     ELSE IF usage = {} /\ deleteUnusedFile /\ ~(\E v \in exports : v.skip)
     THEN [operation |-> "delete", content |-> NoFile,
           removedExports |-> {}, usage |-> usage]
     ELSE IF changes = {}
     THEN [operation |-> "edit", content |-> Content(F, target),
           removedExports |-> logs, usage |-> usage]
     ELSE [operation |-> "edit",
           content |-> IF enableCodeFix THEN ApplyCodeFix(edited) ELSE edited,
           removedExports |-> logs, usage |-> usage]

\* text contains IGNORE_COMMENT
HasIgnoreCommentNever(text) == FALSE
HasIgnoreComment(text) == text.marker \/ \E it \in text.items : it.skip

\* removeWholeExportSpecifier: the text without its `export * from specifier`
\* statement, or NoFile (null) when it has none
RemoveWholeExportSpecifier(text, specifier) ==
  LET hit == {it \in text.items : it.kind = "whole" /\ it.from = specifier}
  IN IF hit = {} THEN NoFile ELSE [text EXCEPT !.items = @ \ hit]

\* ---------------------------------------------------------------- state

VARIABLES
  files,        \* fileService: path -> text (NoFile: absent)
  vertexes,     \* dependencyGraph.vertexes
  entrypoints, deleteUnusedFile, enableCodeFix, recursive, pool,
  pc,           \* "seed", "tasks", "cleanup", "done"
  names,        \* fileService.getFileNames() of this run
  seedIdx,      \* position of the seeding loop in names
  filesOutsideOfGraphHasSkipComment,
  initialFiles, \* sequence of [file, depth]
  queue,        \* TaskManager: paths waiting
  running,      \* TaskManager: callbacks awaiting fn(...), with the result
  wholeReexportsToBeDeleted,
  cleanupIdx,   \* position of the deferred cleanup loop
  events,       \* editTracker calls, store writes and early return of the last handler
  executions,   \* callback invocations of this run, per path
  added,        \* paths handed to c.add during this run
  files0,       \* the store the first run started from
  runStart,     \* the store this run started from
  firstResult,  \* store and graph the first run ended with (<<>> during it)
  mode          \* "first", "again" (same configuration), "pooled"

vars ==
  <<files, vertexes, entrypoints, deleteUnusedFile, enableCodeFix, recursive,
    pool, pc, names, seedIdx, filesOutsideOfGraphHasSkipComment, initialFiles,
    queue, running, wholeReexportsToBeDeleted, cleanupIdx, events, executions,
    added, files0, runStart, firstResult, mode>>

\* fileService.exists(file)
ExistsAlways(f) == TRUE
Exists(f) == files[f].exists

\* fileService.getFileNames()
GetFileNames(F) == SelectSeq(FileNames, LAMBDA m : F[m].exists)

\* Array.from(set), in file order
ArrayFrom(S) == SelectSeq(FileNames, LAMBDA m : m \in S)

TotalExecutions == executions["a"] + executions["b"] + executions["c"] + executions["d"]

\* entrypoints.includes(file)
IsEntrypointNever(f) == FALSE
IsEntrypoint(f) == f \in entrypoints

\* the state removeUnusedExport is in when its seeding loop starts
Begin(F) ==
  /\ vertexes' = CollectImports(F, entrypoints)
  /\ names' = GetFileNames(F)
  /\ runStart' = F
  /\ pc' = "seed"
  /\ seedIdx' = 1
  /\ filesOutsideOfGraphHasSkipComment' = FALSE
  /\ initialFiles' = <<>>
  /\ queue' = <<>>
  /\ running' = {}
  /\ wholeReexportsToBeDeleted' = <<>>
  /\ cleanupIdx' = 1
  /\ events' = <<>>
  /\ executions' = [m \in Modules |-> 0]
  /\ added' = <<>>

Init ==
  /\ files \in Stores
  /\ entrypoints \in EntrypointSets
  /\ deleteUnusedFile \in BOOLEAN
  /\ enableCodeFix \in BOOLEAN
  /\ recursive \in BOOLEAN
  /\ pool \in BOOLEAN
  /\ vertexes = CollectImports(files, entrypoints)
  /\ names = GetFileNames(files)
  /\ files0 = files
  /\ runStart = files
  /\ firstResult = <<>>
  /\ mode = "first"
  /\ pc = "seed"
  /\ seedIdx = 1
  /\ filesOutsideOfGraphHasSkipComment = FALSE
  /\ initialFiles = <<>>
  /\ queue = <<>>
  /\ running = {}
  /\ wholeReexportsToBeDeleted = <<>>
  /\ cleanupIdx = 1
  /\ events = <<>>
  /\ executions = [m \in Modules |-> 0]
  /\ added = <<>>

\* ------------------------------------------------------------- seeding

\* what the seeding loop does with a file, given the flag after line 501-503
SeedKindAlwaysDelete(file, flag) ==
  IF IsEntrypoint(file) THEN "entrypoint"
  ELSE IF vertexes[file].present /\ vertexes[file].depth < Infinity THEN "reachable"
  ELSE IF ~flag /\ ~IsEntrypoint(file) THEN "delete"
  ELSE "orphan"
SeedKind(file, flag) ==
  IF IsEntrypoint(file) THEN "entrypoint"
  ELSE IF vertexes[file].present /\ vertexes[file].depth < Infinity THEN "reachable"
  ELSE IF deleteUnusedFile /\ ~flag /\ ~IsEntrypoint(file) THEN "delete"
  ELSE "orphan"

\* one iteration of `for (const file of fileService.getFileNames())`
SeedStep ==
  /\ pc = "seed"
  /\ seedIdx <= Len(names)
  /\ LET file == names[seedIdx]
         outside == ~IsEntrypoint(file)
                    /\ ~(vertexes[file].present /\ vertexes[file].depth < Infinity)
         flag == filesOutsideOfGraphHasSkipComment
                 \/ (outside /\ HasIgnoreComment(files[file]))
         kind == SeedKind(file, flag)
     IN /\ filesOutsideOfGraphHasSkipComment' = flag
        /\ files' = IF kind = "delete" THEN [files EXCEPT ![file] = NoFile] ELSE files
        /\ events' = IF kind = "delete"
                     THEN << <<"start", file, files[file]>>, <<"delete", file>>,
                             <<"fileService.delete", file>> >>
                     ELSE <<>>
        /\ initialFiles' =
             CASE kind = "reachable" ->
                    Append(initialFiles, [file |-> file, depth |-> vertexes[file].depth])
               [] kind = "orphan" ->
                    Append(initialFiles, [file |-> file, depth |-> 0 - 1])
               [] OTHER -> initialFiles
  /\ seedIdx' = seedIdx + 1
  /\ UNCHANGED <<vertexes, entrypoints, deleteUnusedFile, enableCodeFix, recursive,
                 pool, pc, names, queue, running, wholeReexportsToBeDeleted,
                 cleanupIdx, executions, added, files0, runStart, firstResult, mode>>

\* initialFiles.sort((a, b) => a.depth - b.depth): stable insertion
RECURSIVE SortByDepth(_)
SortByDepth(s) ==
  IF Len(s) <= 1 THEN s
  ELSE LET rest == SortByDepth(SubSeq(s, 1, Len(s) - 1))
           x == s[Len(s)]
           before == SelectSeq(rest, LAMBDA e : e.depth <= x.depth)
           after == SelectSeq(rest, LAMBDA e : e.depth > x.depth)
       IN before \o <<x>> \o after

\* the sort and taskManager.execute(initialFiles.map((v) => v.file))
StartTasks ==
  /\ pc = "seed"
  /\ seedIdx > Len(names)
  /\ initialFiles' = SortByDepth(initialFiles)
  /\ queue' = [i \in 1..Len(initialFiles) |-> SortByDepth(initialFiles)[i].file]
  /\ pc' = "tasks"
  /\ events' = <<>>
  /\ UNCHANGED <<files, vertexes, entrypoints, deleteUnusedFile, enableCodeFix,
                 recursive, pool, names, seedIdx, filesOutsideOfGraphHasSkipComment,
                 running, wholeReexportsToBeDeleted, cleanupIdx, executions, added,
                 files0, runStart, firstResult, mode>>

\* ---------------------------------------------------------- task manager

\* at most this many callbacks are awaiting their analyzer at once
Concurrency == IF pool THEN PoolSize ELSE 1

RunningFiles == {t.file : t \in running}

\* the waiting entries that may start: a path with a callback outstanding waits
Eligible == {i \in 1..Len(queue) : queue[i] \notin RunningFiles}

RemoveAt(q, i) == SubSeq(q, 1, i - 1) \o SubSeq(q, i + 1, Len(q))

\* c.signal.aborted: the task's module is no longer in the store
Aborted(file) == ~Exists(file)

\* c.add(...files)
Enqueue(q, list) == q \o list

\* what the analyzer leaves in the store of the run: processFile keeps its
\* work in a MemoryFileService of its own (fileService.set on lines 355-389)
\* and only reads the `files` it was handed
AnalyzerWritesShared(F, file, result) ==
  IF result.operation = "edit" /\ result.removedExports # {}
  THEN [F EXCEPT ![file] = result.content] ELSE F
AnalyzerWrites(F, file, result) == F

\* the callback from its start to `await fn(...)`: the existence check, the
\* vertex lookup and the analyzer run on the ejected snapshots
Dispatch ==
  /\ pc = "tasks"
  /\ Cardinality(running) < Concurrency
  /\ Eligible # {}
  /\ LET i == CHOOSE k \in Eligible : \A j \in Eligible : k <= j
         file == queue[i]
         result == ProcessFile(file, files, vertexes, deleteUnusedFile, enableCodeFix)
     IN /\ executions[file] < MaxExec
        /\ queue' = RemoveAt(queue, i)
        /\ executions' = [executions EXCEPT ![file] = @ + 1]
        /\ IF ~Exists(file) \/ Aborted(file)
           THEN /\ running' = running
                /\ files' = files
                /\ events' = << <<"return", file>> >>
           ELSE /\ running' = running \cup
                     {[file |-> file,
                       vertex |-> vertexes[file].present,
                       result |-> result]}
                /\ files' = AnalyzerWrites(files, file, result)
                /\ events' = <<>>
  /\ UNCHANGED <<vertexes, entrypoints, deleteUnusedFile, enableCodeFix,
                 recursive, pool, pc, names, seedIdx,
                 filesOutsideOfGraphHasSkipComment, initialFiles,
                 wholeReexportsToBeDeleted, cleanupIdx, added, files0, runStart, firstResult, mode>>

\* ------------------------------------------------- applying a task's result

\* ...Array.from(vertex.to).filter((f) => !entrypoints.includes(f))
CascadeTargetsUnfiltered(to) == ArrayFrom(to)
CascadeTargets(to) == ArrayFrom({f \in to : ~IsEntrypoint(f)})

\* line 584 and line 603: is the cascade enqueued
CascadeOnDelete(vertex) == vertex /\ recursive
CascadeOnEditAlways(vertex, removedExports) == vertex /\ recursive
CascadeOnEditUnguarded(vertex, removedExports) == vertex /\ removedExports # {}
CascadeOnEditNever(vertex, removedExports) == FALSE
CascadeOnEdit(vertex, removedExports) == vertex /\ removedExports # {} /\ recursive

\* the (importer, specifier) entries pushed when file is deleted
WholeReexportsOf(file) ==
  LET importers == ArrayFrom({v \in vertexes[file].from :
                       vertexes[v].present
                       /\ WholeReexportSpecifier(vertexes[v], file) # {}})
  IN [i \in 1..Len(importers) |->
        [file |-> importers[i],
         specifier |-> CHOOSE sp \in WholeReexportSpecifier(vertexes[importers[i]], file) : TRUE]]

\* editTracker calls and store writes, in the order the code makes them
DeleteEvents(file, entry) ==
  IF entry
  THEN << <<"start", file, files[file]>>, <<"end", file>> >>
  ELSE << <<"start", file, files[file]>>, <<"delete", file>>,
          <<"fileService.delete", file>> >>

EditEvents(file, removedExports) ==
  << <<"start", file, files[file]>> >>
    \o (IF removedExports = {} THEN <<>> ELSE << <<"removeExport", file, removedExports>> >>)
    \o << <<"end", file>>, <<"fileService.set", file>> >>

CleanupEvents(file, content, info) ==
  << <<"fileService.set", file>>, <<"start", file, content>>,
     <<"removeExport", file, info>>, <<"end", file>> >>

ApplyDelete(t) ==
  IF IsEntrypoint(t.file)
  THEN /\ events' = DeleteEvents(t.file, TRUE)
       /\ UNCHANGED <<files, vertexes, wholeReexportsToBeDeleted, queue, added>>
  ELSE /\ events' = DeleteEvents(t.file, FALSE)
       /\ files' = [files EXCEPT ![t.file] = NoFile]
       /\ IF t.vertex
          THEN /\ wholeReexportsToBeDeleted' =
                    wholeReexportsToBeDeleted \o WholeReexportsOf(t.file)
               /\ vertexes' = DeleteVertex(vertexes, t.file)
               /\ LET list == IF CascadeOnDelete(t.vertex)
                              THEN CascadeTargets(vertexes[t.file].to) ELSE <<>>
                  IN /\ queue' = Enqueue(queue, list)
                     /\ added' = added \o list
          ELSE UNCHANGED <<vertexes, wholeReexportsToBeDeleted, queue, added>>

ApplyEdit(t) ==
  /\ events' = EditEvents(t.file, t.result.removedExports)
  /\ files' = [files EXCEPT ![t.file] = t.result.content]
  /\ LET list == IF CascadeOnEdit(t.vertex, t.result.removedExports)
                 THEN CascadeTargets(vertexes[t.file].to) ELSE <<>>
     IN /\ queue' = Enqueue(queue, list)
        /\ added' = added \o list
  /\ UNCHANGED <<vertexes, wholeReexportsToBeDeleted>>

\* the callback from the return of `await fn(...)` to its end
Complete ==
  /\ pc = "tasks"
  /\ \E t \in running :
       /\ running' = running \ {t}
       /\ IF Aborted(t.file)
          THEN /\ events' = <<>>
               /\ UNCHANGED <<files, vertexes, wholeReexportsToBeDeleted, queue, added>>
          ELSE IF t.result.operation = "delete" THEN ApplyDelete(t)
          ELSE ApplyEdit(t)
  /\ UNCHANGED <<entrypoints, deleteUnusedFile, enableCodeFix, recursive, pool, pc,
                 names, seedIdx, filesOutsideOfGraphHasSkipComment, initialFiles,
                 cleanupIdx, executions, files0, runStart, firstResult, mode>>

\* taskManager.execute resolves: nothing waits and nothing is in flight
FixpointNotAwaited ==
  /\ pc = "tasks"
  /\ running = {}
  /\ pc' = "cleanup"
  /\ cleanupIdx' = 1
  /\ events' = <<>>
  /\ UNCHANGED <<files, vertexes, entrypoints, deleteUnusedFile, enableCodeFix,
                 recursive, pool, names, seedIdx, filesOutsideOfGraphHasSkipComment,
                 initialFiles, queue, running, wholeReexportsToBeDeleted, executions,
                 added, files0, runStart, firstResult, mode>>
Fixpoint ==
  /\ pc = "tasks"
  /\ queue = <<>>
  /\ running = {}
  /\ pc' = "cleanup"
  /\ cleanupIdx' = 1
  /\ events' = <<>>
  /\ UNCHANGED <<files, vertexes, entrypoints, deleteUnusedFile, enableCodeFix,
                 recursive, pool, names, seedIdx, filesOutsideOfGraphHasSkipComment,
                 initialFiles, queue, running, wholeReexportsToBeDeleted, executions,
                 added, files0, runStart, firstResult, mode>>

\* ------------------------------------------------------- deferred cleanup

\* one iteration of `for (const item of wholeReexportsToBeDeleted)`
CleanupStep ==
  /\ pc = "cleanup"
  /\ cleanupIdx <= Len(wholeReexportsToBeDeleted)
  /\ LET item == wholeReexportsToBeDeleted[cleanupIdx]
         content == files[item.file]
         result == RemoveWholeExportSpecifier(content, item.specifier)
     IN IF ~Exists(item.file) \/ ~result.exists
        THEN /\ events' = <<>>
             /\ UNCHANGED files
        ELSE /\ files' = [files EXCEPT ![item.file] = result]
             /\ events' = CleanupEvents(item.file, content, item.specifier)
  /\ cleanupIdx' = cleanupIdx + 1
  /\ UNCHANGED <<vertexes, entrypoints, deleteUnusedFile, enableCodeFix, recursive,
                 pool, pc, names, seedIdx, filesOutsideOfGraphHasSkipComment,
                 initialFiles, queue, running, wholeReexportsToBeDeleted, executions,
                 added, files0, runStart, firstResult, mode>>

\* removeUnusedExport returns
Return ==
  /\ pc = "cleanup"
  /\ cleanupIdx > Len(wholeReexportsToBeDeleted)
  /\ pc' = "done"
  /\ events' = <<>>
  /\ UNCHANGED <<files, vertexes, entrypoints, deleteUnusedFile, enableCodeFix,
                 recursive, pool, names, seedIdx, filesOutsideOfGraphHasSkipComment,
                 initialFiles, queue, running, wholeReexportsToBeDeleted, cleanupIdx,
                 executions, added, files0, runStart, firstResult, mode>>

Next == SeedStep \/ StartTasks \/ Dispatch \/ Complete \/ Fixpoint \/ CleanupStep \/ Return

Spec == Init /\ [][Next]_vars

\* ------------------------------------------------- running the tool again

\* removeUnusedExport called again on the store it left, same configuration
RunAgain ==
  /\ pc = "done"
  /\ mode = "first"
  /\ mode' = "again"
  /\ firstResult' = <<files, vertexes>>
  /\ Begin(files)
  /\ UNCHANGED <<files, entrypoints, deleteUnusedFile, enableCodeFix, recursive,
                 pool, files0>>

\* removeUnusedExport called with a pool on the store the pool-less run started from
RunPooled ==
  /\ pc = "done"
  /\ mode = "first"
  /\ ~pool
  /\ mode' = "pooled"
  /\ pool' = TRUE
  /\ firstResult' = <<files, vertexes>>
  /\ files' = files0
  /\ Begin(files0)
  /\ UNCHANGED <<entrypoints, deleteUnusedFile, enableCodeFix, recursive, files0>>

NextAgain == Next \/ RunAgain
NextPooled == Next \/ RunPooled

SpecAgain == Init /\ [][NextAgain]_vars
InitSequential == Init /\ ~pool
SpecPooled == InitSequential /\ [][NextPooled]_vars

\* the event loop runs every continuation that is ready
InitRecursive == Init /\ recursive
FairSpec == InitRecursive /\ [][Next]_vars /\ WF_vars(Next)

\* ------------------------------------------------------------------ C1
\* C1: in every reachable state of a run, every entrypoint that was in the
\* file store at the start is still in the file store.
C1_EntrypointsKept ==
  \A e \in entrypoints : files0[e].exists => files[e].exists

\* a finished run that deleted a module, with an entrypoint the analyzer
\* would answer 'delete' for
C1_Witness ==
  /\ pc = "done"
  /\ \E m \in Modules : files0[m].exists /\ ~files[m].exists
  /\ \E e \in entrypoints :
       /\ files[e].exists
       /\ ProcessFile(e, files, vertexes, deleteUnusedFile, enableCodeFix).operation
            = "delete"

\* ------------------------------------------------------------------ C2
\* exported symbols of a text (a statement without a name counts as one)
ExportCount(text) ==
  LET RECURSIVE Sum(_)
      Sum(S) == IF S = {} THEN 0
                ELSE LET it == CHOOSE x \in S : TRUE
                     IN (IF it.names = {} THEN 1 ELSE Cardinality(it.names))
                        + Sum(S \ {it})
  IN Sum(text.items)

ModuleCount == Cardinality({m \in Modules : files0[m].exists})

MaxExports ==
  LET counts == {ExportCount(files0[m]) : m \in Modules}
  IN CHOOSE k \in counts : \A j \in counts : j <= k

\* the modules a task can be made for, and their exports
Candidates == {m \in Modules : files0[m].exists /\ m \notin entrypoints}

CandidateExports ==
  LET RECURSIVE Sum(_)
      Sum(S) == IF S = {} THEN 0
                ELSE LET m == CHOOSE x \in S : TRUE
                     IN ExportCount(files0[m]) + Sum(S \ {m})
  IN Sum(Candidates)

C3_Terminates == recursive => <>(pc = "done")

\* a finished recursive run in which a task re-enqueued other modules
C3_Witness ==
  /\ recursive
  /\ pc = "done"
  /\ added # <<>>
  /\ queue = <<>>
  /\ running = {}

SkippedExportsKept ==
  \A m \in Modules :
    \A it \in {x \in files0[m].items : x.skip} :
      files[m].exists => it \in files[m].items

\* C6 as stated: during a whole run no export whose skip flag is set is
\* removed from its module's text, and no module that carries the skip
\* marker is deleted from the store.
C6_AsStated ==
  /\ SkippedExportsKept
  /\ \A m \in Modules : HasIgnoreComment(files0[m]) => files[m].exists

\* C6 amended: during a whole run no export whose skip flag is set is
\* removed from its module's text, and no module that has an export whose
\* skip flag is set is deleted from the store; a module whose text holds the
\* marker elsewhere is only kept by the seeding loop.
C6_SkipRespected ==
  /\ SkippedExportsKept
  /\ \A m \in Modules : (\E it \in files0[m].items : it.skip) => files[m].exists
  /\ \A m \in Modules :
       (HasIgnoreComment(files0[m]) /\ pc = "seed") => files[m].exists

\* a finished run with deletion enabled that deleted a module and kept a
\* module no importer uses because one of its exports is marked
C6_Witness ==
  /\ pc = "done"
  /\ deleteUnusedFile
  /\ \E m \in Modules : files0[m].exists /\ ~files[m].exists
  /\ \E m \in Modules :
       /\ m \notin entrypoints
       /\ \E it \in files[m].items : it.skip
       /\ FindFileUsage(m, vertexes, files) = {}
       /\ executions[m] > 0

\* ------------------------------------------------------------------ C7
\* C7: when the run has returned, for every module c deleted during the run
\* (at seeding or by a task) and every module d still in the store whose
\* text held `export * from c`, d's text no longer holds that statement.
C7_WholeReexportsCleaned ==
  pc = "done" =>
    \A c \in Modules, d \in Modules :
      (/\ runStart[c].exists /\ ~files[c].exists
       /\ files[d].exists
       /\ Whole(c) \in runStart[d].items)
        => Whole(c) \notin files[d].items

\* ------------------------------------------------------------------ C8
SeededFiles == {initialFiles[i].file : i \in 1..Len(initialFiles)}
QueuedFiles == {queue[i] : i \in 1..Len(queue)}

\* C8: with recursive = false no task is added during processing, every
\* module is analyzed at most once, and the modules analyzed are exactly the
\* seeded ones.
C8_NoCascade ==
  ~recursive =>
    /\ added = <<>>
    /\ \A m \in Modules : executions[m] <= 1
    /\ \A m \in Modules : executions[m] > 0 => m \in SeededFiles
    /\ pc = "tasks" =>
         /\ Len(queue) = Cardinality(QueuedFiles)
         /\ \A m \in SeededFiles : (executions[m] = 0) = (m \in QueuedFiles)
    /\ pc \in {"cleanup", "done"} =>
         \A m \in Modules : (executions[m] = 1) = (m \in SeededFiles)

\* a finished run without cascading in which a task removed exports of a
\* module that imports another seeded module
C8_Witness ==
  /\ ~recursive
  /\ pc = "done"
  /\ \E m \in SeededFiles :
       /\ files[m].exists
       /\ files[m] # runStart[m]
       /\ executions[m] = 1
       /\ \E n \in SeededFiles : n \in Edges(runStart, m) /\ executions[n] = 1

\* ------------------------------------------------------------------ C9
\* C9: when the callback of a task whose analysis found "*" in the usage of
\* its module completes, the store and the graph are unchanged, no export
\* removal and no deletion is reported, and nothing is enqueued.
C9_WildcardUntouched ==
  [][\A t \in running :
       (t \notin running' /\ "*" \in t.result.usage) =>
         /\ files' = files
         /\ vertexes' = vertexes
         /\ queue' = queue
         /\ added' = added
         /\ \A i \in 1..Len(events') : events'[i][1] \notin {"removeExport", "delete"}]_vars

\* a task just applied for a module with exports whose usage holds "*",
\* with deletion of unused modules enabled
C9_Witness ==
  /\ pc = "tasks"
  /\ deleteUnusedFile
  /\ recursive
  /\ events # <<>>
  /\ events[1][1] = "start"
  /\ "*" \in FindFileUsage(events[1][2], vertexes, files)
  /\ files[events[1][2]].items # {}
  /\ events[Len(events)][1] = "fileService.set"

\* ----------------------------------------------------------------- C10
IsWrite(e) == e[1] \in {"fileService.set", "fileService.delete"}

\* C10: every store write of a handler has editTracker.start for that path
\* before it and editTracker.end for that path after it.
C10_StartBeforeEndAfter ==
  \A i \in 1..Len(events) :
    IsWrite(events[i]) =>
      /\ \E j \in 1..(i - 1) : events[j][1] = "start" /\ events[j][2] = events[i][2]
      /\ \E k \in (i + 1)..Len(events) : events[k][1] = "end" /\ events[k][2] = events[i][2]

\* ----------------------------------------------------------------- C11
\* C11: in every state after seeding, a module has a vertex exactly when it
\* is in the store, and no vertex's to or from set names a module that is
\* not in the store.
C11_GraphMatchesStore ==
  pc # "seed" =>
    /\ \A m \in Modules : vertexes[m].present = files[m].exists
    /\ \A m \in Modules :
         vertexes[m].present =>
           \A n \in vertexes[m].to \cup vertexes[m].from : files[n].exists

\* ----------------------------------------------------------------- C12
\* the task whose callback ends in this step
Completing(t) == t \in running /\ t \notin running'

\* the paths this step appended to the queue
Enqueued == {queue'[i] : i \in (Len(queue) + 1)..Len(queue')}

\* the callback of t ends by applying an edit that removed exports, with
\* cascading enabled
ShrinkingEdit(t) ==
  /\ Completing(t)
  /\ recursive
  /\ t.vertex
  /\ files[t.file].exists
  /\ t.result.operation = "edit"
  /\ t.result.removedExports # {}

\* C12 as stated: when a task's edit removed at least one export and
\* cascading is enabled, the modules enqueued are importers of the task's
\* module (members of its vertex's from set).
C12_AsStated ==
  [][\A t \in running :
       ShrinkingEdit(t) => Enqueued \subseteq vertexes[t.file].from]_vars

\* C12 amended: when a task's edit removed at least one export and cascading
\* is enabled, the modules enqueued are the modules the task's module
\* imports (the members of its vertex's to set) that are not entrypoints.
C12_EnqueuesImportees ==
  [][\A t \in running :
       ShrinkingEdit(t) =>
         Enqueued = {f \in vertexes[t.file].to : f \notin entrypoints}]_vars

\* a task has just removed exports of a module and its importees, which are
\* not its importers, were appended to the queue
C12_Witness ==
  /\ pc = "tasks"
  /\ recursive
  /\ Len(events) >= 2
  /\ events[1][1] = "start"
  /\ events[2][1] = "removeExport"
  /\ LET file == events[1][2]
         list == ArrayFrom({f \in vertexes[file].to : f \notin entrypoints})
     IN /\ list # <<>>
        /\ Len(queue) >= Len(list)
        /\ SubSeq(queue, Len(queue) - Len(list) + 1, Len(queue)) = list
        /\ vertexes[file].from # {}
        /\ \A f \in vertexes[file].to : f \notin vertexes[file].from

\* ----------------------------------------------------------------- C13
\* C13: with cascading enabled, a completed task for a module with a vertex
\* appends to the queue exactly the members of the vertex's to set that are
\* not entrypoints, each once, when it deleted the module or removed at
\* least one export; when its edit removed nothing, the queue, the module's
\* text and the graph are unchanged.
C13_CascadeExact ==
  [][\A t \in running :
       (Completing(t) /\ recursive /\ t.vertex /\ files[t.file].exists) =>
         IF \/ t.result.operation = "delete" /\ t.file \notin entrypoints
            \/ t.result.operation = "edit" /\ t.result.removedExports # {}
         THEN /\ SubSeq(queue', 1, Len(queue)) = queue
              /\ Enqueued = {f \in vertexes[t.file].to : f \notin entrypoints}
              /\ Len(queue') = Len(queue) + Cardinality(Enqueued)
         ELSE t.result.operation = "edit" =>
                /\ queue' = queue
                /\ added' = added
                /\ files'[t.file] = files[t.file]
                /\ vertexes' = vertexes]_vars

\* a task has just deleted a module and the modules it imported were
\* appended to the queue, in a run in which an earlier task removed exports
C13_Witness ==
  /\ recursive
  /\ pc = "tasks"
  /\ Len(events) = 3
  /\ events[3][1] = "fileService.delete"
  /\ LET file == events[1][2]
         list == ArrayFrom({f \in Edges(runStart, file) : f \notin entrypoints})
     IN /\ ~files[file].exists
        /\ list # <<>>
        /\ Len(queue) >= Len(list)
        /\ SubSeq(queue, Len(queue) - Len(list) + 1, Len(queue)) = list
  /\ \E m \in Modules :
       /\ files[m].exists /\ executions[m] > 0
       /\ files[m].items # runStart[m].items

\* ----------------------------------------------------------------- C14
\* the callback for path m starts in this step
Starting(m) == executions'[m] = executions[m] + 1

\* C14: a callback whose module is not in the store when it starts does not
\* run the analyzer, and one whose module is not in the store when the
\* analyzer returns applies nothing; either leaves the store, the graph and
\* the cleanup list alone and enqueues nothing, and a module that is not in
\* the store is never put back by a later step of the run.
C14_AbsentTaskNoOp ==
  [][/\ \A m \in Modules :
          (Starting(m) /\ ~files[m].exists) =>
            /\ running' = running
            /\ files' = files
            /\ vertexes' = vertexes
            /\ wholeReexportsToBeDeleted' = wholeReexportsToBeDeleted
            /\ added' = added
            /\ Enqueued = {}
     /\ \A t \in running :
          (Completing(t) /\ ~files[t.file].exists) =>
            /\ files' = files
            /\ vertexes' = vertexes
            /\ wholeReexportsToBeDeleted' = wholeReexportsToBeDeleted
            /\ queue' = queue
            /\ added' = added
     /\ \A m \in Modules :
          (runStart[m].exists /\ ~files[m].exists) => ~files'[m].exists]_vars

\* the callback of a path that a task deleted earlier in the run has just
\* returned at its existence check
C14_Witness ==
  /\ pc = "tasks"
  /\ events # <<>>
  /\ events[1][1] = "return"
  /\ runStart[events[1][2]].exists
  /\ ~files[events[1][2]].exists
  /\ executions[events[1][2]] >= 2

\* ----------------------------------------------------------------- C15
\* C15: the step that runs the analyzer for a task leaves the store and the
\* graph as they were, and while a task's analysis is outstanding the store
\* and the graph change only in steps that apply another task's result.
C15_AnalyzerFrame ==
  [][/\ (\E m \in Modules : Starting(m)) =>
          /\ files' = files
          /\ vertexes' = vertexes
     /\ \A t \in running :
          (t \in running' /\ <<files, vertexes>>' # <<files, vertexes>>) =>
            \E u \in running : u # t /\ Completing(u)]_vars

\* an analysis is outstanding for a module whose exports it removes, the
\* store still holds the module's text as dispatched, and another task's
\* result has changed the store since the run's callbacks started
C15_Witness ==
  /\ pc = "tasks"
  /\ pool
  /\ \E t \in running :
       /\ t.result.operation = "edit"
       /\ t.result.removedExports # {}
       /\ files[t.file] # t.result.content
       /\ files[t.file] = runStart[t.file]
       /\ \E m \in Modules \ {t.file} : executions[m] > 0 /\ files[m] # runStart[m]

\* ----------------------------------------------------------------- C16
\* the seeding loop visits names[seedIdx] in this step
Visiting == pc = "seed" /\ seedIdx' = seedIdx + 1

\* the text holds the skip marker, on an export or elsewhere
Marked(text) == text.marker \/ \E it \in text.items : it.skip

\* not an entrypoint and not reached from one
OutsideGraph(m) ==
  /\ m \notin entrypoints
  /\ ~(vertexes[m].present /\ vertexes[m].depth < Infinity)

\* C16: with deletion of unused modules enabled, the seeding loop deletes a
\* module outside the graph, without a task, only while no marked module
\* outside the graph has been visited; from the first such module on
\* (itself included) it deletes nothing and seeds every module outside the
\* graph with depth -1.
C16_SeedingRule ==
  [][Visiting =>
       LET file == names[seedIdx]
           seen == filesOutsideOfGraphHasSkipComment
                   \/ (OutsideGraph(file) /\ Marked(files[file]))
       IN /\ filesOutsideOfGraphHasSkipComment' = seen
          /\ (deleteUnusedFile /\ OutsideGraph(file)) =>
               IF seen
               THEN /\ files' = files
                    /\ initialFiles' =
                         Append(initialFiles, [file |-> file, depth |-> 0 - 1])
               ELSE /\ files' = [files EXCEPT ![file] = NoFile]
                    /\ initialFiles' = initialFiles
          /\ seen => files' = files]_vars

\* seeding with deletion enabled has met a marked module outside the graph
\* and seeded it and a later unmarked module outside the graph with depth -1
C16_Witness ==
  /\ pc = "seed"
  /\ deleteUnusedFile
  /\ filesOutsideOfGraphHasSkipComment
  /\ \E i \in 1..Len(initialFiles), j \in 1..Len(initialFiles) :
       /\ i < j
       /\ initialFiles[i].depth = 0 - 1
       /\ initialFiles[j].depth = 0 - 1
       /\ Marked(files[initialFiles[i].file])
       /\ ~Marked(files[initialFiles[j].file])
       /\ OutsideGraph(initialFiles[j].file)

\* ----------------------------------------------------------------- C17
\* the deferred cleanup loop handles wholeReexportsToBeDeleted[cleanupIdx]
\* in this step
Cleaning == pc = "cleanup" /\ cleanupIdx' = cleanupIdx + 1

\* text holds `export * from specifier`
HasWholeReexport(text, specifier) ==
  \E it \in text.items : it.kind = "whole" /\ it.from = specifier

\* C17: the deferred cleanup starts and runs with the queue empty and no
\* task in flight, and an entry whose importer is not in the store, or whose
\* importer's text does not hold the entry's whole re-export, leaves the
\* store unchanged and makes no editTracker call.
C17_CleanupAfterFixpoint ==
  [][/\ (pc' = "cleanup" \/ Cleaning) => (queue = <<>> /\ running = {})
     /\ Cleaning =>
          LET item == wholeReexportsToBeDeleted[cleanupIdx]
          IN (\/ ~files[item.file].exists
              \/ ~HasWholeReexport(files[item.file], item.specifier)) =>
               /\ files' = files
               /\ events' = <<>>]_vars

\* the cleanup loop has just skipped the entry of an importer that was in
\* the store when the run started and is not any more
C17_Witness ==
  /\ pc = "cleanup"
  /\ cleanupIdx > 1
  /\ events = <<>>
  /\ LET item == wholeReexportsToBeDeleted[cleanupIdx - 1]
     IN /\ runStart[item.file].exists
        /\ ~files[item.file].exists
        /\ HasWholeReexport(runStart[item.file], item.specifier)

\* ----------------------------------------------------------------- C18
\* C18: with deleteUnusedFile = false the paths in the store are the same in
\* every state of the run as at its start, and no task's result is 'delete'.
C18_NoDeletionWhenDisabled ==
  ~deleteUnusedFile =>
    /\ \A m \in Modules : files[m].exists = files0[m].exists
    /\ \A t \in running : t.result.operation # "delete"

\* a finished run with deletion disabled that changed texts and analyzed a
\* module outside the graph and a module nothing uses, both still in the store
C18_Witness ==
  /\ pc = "done"
  /\ ~deleteUnusedFile
  /\ files # files0
  /\ \E m \in Modules :
       /\ OutsideGraph(m)
       /\ executions[m] > 0
       /\ files[m].exists
  /\ \E m \in Modules \ entrypoints :
       /\ ~OutsideGraph(m)
       /\ executions[m] > 0
       /\ files[m].exists
       /\ FindFileUsage(m, vertexes, files) = {}
       /\ ~Marked(files[m])

\* ----------------------------------------------------------------- C19
\* C19: in the result of every analysis that returns an edit, every name of
\* every export item that is in the usage set is still exported by an item
\* of the same kind and source in the result's text.
C19_UsedExportsKept ==
  \A t \in running :
    t.result.operation = "edit" =>
      \A it \in files[t.file].items :
        \A n \in it.names \cap t.result.usage :
          \E kept \in t.result.content.items :
            /\ kept.kind = it.kind
            /\ kept.from = it.from
            /\ n \in kept.names

====
